---- MODULE Spec2Model ----
(***************************************************************************)
(* Model of LHMap.LinkedHashMap (src/LinkedHashMap.ts): a chained hash     *)
(* table whose entries are also threaded on a circular doubly linked list  *)
(* anchored at a sentinel header.                                          *)
(*                                                                         *)
(* Entries are heap objects: heap[e] is the record of the Entry at address *)
(* e, heap[Header] the sentinel; an entry no reference leads to any more   *)
(* is reclaimed.  Strings are tuples of char codes.                        *)
(***************************************************************************)
EXTENDS Integers, Sequences, FiniteSets, TLC

\* ------------------------------------------------------------------ bounds
\* number of structural modifications (this.modCount) a behaviour may make
MaxModCount == 5
\* --------------------------------------------------------------- constants
\* the sentinel, allocated first by the constructor
Header == 0
\* JavaScript undefined, as a reference and as a value
Undefined == -1
\* 2^16, the limb size of the 32-bit words behind `hash & hash`
Limb == 65536
\* 2^15, the sign bit of the high limb
SignLimb == 32768
\* NaN, what hash() returns for a bucket array of length 0
NaN == -2

\* a key argument that is no string: null and undefined
NullKey == << -1 >>
UndefinedKey == << -2 >>

\* the strings in use, as char codes: "a", "b", "ab", "zzz", "e"
KeySeq == << <<97>>, <<98>>, <<97, 98>>, <<122, 122, 122>>, <<101>> >>
AllKeys == {KeySeq[i] : i \in 1..Len(KeySeq)}
\* the keys of the calls of Spec: "a", "b", "ab", "zzz"
Keys == { <<97>>, <<98>>, <<97, 98>>, <<122, 122, 122>> }
Values == {1, 2}

\* constructor arguments: <<initialCapacity, loadFactor numerator, denominator>>
CtorArgs == { <<1, 3, 4>>, <<2, 3, 4>> }

VARIABLES
    capacity,    \* this.capacity
    threshold,   \* this.threshold
    loadFactor,  \* this.loadFactor as <<numerator, denominator>>
    modCount,    \* this.modCount
    size,        \* this.size
    buckets,     \* this.buckets: [0..length-1 -> entry or Undefined]
    heap,        \* the Entry objects: [address -> [key, value, next, before, after]]
    last,        \* the last call: its name and outcome
    ctor,        \* a constructor call given entries: its position and locals
    iter         \* a generator of _iterator(): its position and locals

vars == <<capacity, threshold, loadFactor, modCount, size, buckets, heap, last,
          ctor, iter>>

\* what the methods of the map leave alone
aux == <<ctor, iter>>

\* ------------------------------------------------------------ Array, floor
\* new Array(n): n empty slots
NewArray(n) == [i \in 0..(n - 1) |-> Undefined]

\* buckets.length
Length(b) == Cardinality(DOMAIN b)

\* Math.floor(cap * loadFactor) for a non-negative product
FloorMul(cap, lf) == (cap * lf[1]) \div lf[2]

\* --------------------------------------------------------------- hashCode
\* a 32-bit word is <<high limb, low limb>>
MulSmall(w, m) ==
    LET t == w[2] * m
    IN  << (w[1] * m + (t \div Limb)) % Limb, t % Limb >>

RECURSIVE PowWord(_, _)
\* Math.pow(m, e) modulo 2^32 (exact while the power is below 2^53)
PowWord(m, e) == IF e = 0 THEN <<0, 1>> ELSE MulSmall(PowWord(m, e - 1), m)

AddWord(a, b) ==
    LET lo == a[2] + b[2]
    IN  << (a[1] + b[1] + (lo \div Limb)) % Limb, lo % Limb >>

\* the word of a signed 32-bit integer
FromInt32(h) == << ((h \div Limb) + Limb) % Limb, h % Limb >>

\* hash & hash: ToInt32 of the number
ToInt32(w) ==
    IF w[1] >= SignLimb THEN (w[1] - Limb) * Limb + w[2] ELSE w[1] * Limb + w[2]

RECURSIVE HashLoop(_, _, _)
\* the loop of hashCode from index i (1-based here) with accumulator hash
HashLoop(str, i, hash) ==
    IF i > Len(str) THEN hash
    ELSE HashLoop(str, i + 1,
             ToInt32(AddWord(FromInt32(hash), PowWord(str[i] * 31, Len(str) - (i - 1)))))

hashCode(str) == HashLoop(str, 1, 0)

\* hashCode of the keys in use, computed once
hashCodes == [str \in AllKeys |-> hashCode(str)]

\* Math.abs(hashCode(key) % n); the remainder takes the sign of the dividend
HashIn(key, n) ==
    LET h == hashCodes[key]
    IN  IF n = 0 THEN NaN
        ELSE IF h < 0 THEN (0 - h) % n ELSE h % n

\* this.buckets[idx]: undefined where the array has no such element
At(b, idx) == IF idx \in DOMAIN b THEN b[idx] ELSE Undefined

\* ------------------------------------------------------------------ Entry
NewEntry(key, value, next) ==
    [key |-> key, value |-> value, next |-> next,
     before |-> Undefined, after |-> Undefined]

\* entry.remove()
Remove(h, e) ==
    LET h1 == [h EXCEPT ![h[e].before].after = h[e].after]
    IN  [h1 EXCEPT ![h1[e].after].before = h1[e].before]

\* addBefore linking the entry behind existingEntry instead of in front of it
AddBeforeBehind(h, e, existingEntry) ==
    LET h1 == [h EXCEPT ![e].before = existingEntry]
        h2 == [h1 EXCEPT ![e].after = h1[existingEntry].after]
        h3 == [h2 EXCEPT ![h2[e].after].before = e]
    IN  [h3 EXCEPT ![h3[e].before].after = e]

\* entry.addBefore(existingEntry)
AddBefore(h, e, existingEntry) ==
    LET h1 == [h EXCEPT ![e].after = existingEntry]
        h2 == [h1 EXCEPT ![e].before = h1[existingEntry].before]
        h3 == [h2 EXCEPT ![h2[e].before].after = e]
    IN  [h3 EXCEPT ![h3[e].after].before = e]

\* ----------------------------------------------------------------- lookup
RECURSIVE FindFrom(_, _, _)
\* the chain scan of get/has/set: the first entry with the key, or Undefined
FindFrom(h, entry, key) ==
    IF entry = Undefined THEN Undefined
    ELSE IF key = h[entry].key THEN entry
    ELSE FindFrom(h, h[entry].next, key)

Find(h, b, key) == FindFrom(h, At(b, HashIn(key, Length(b))), key)

GetIn(h, b, key) ==
    LET e == Find(h, b, key) IN IF e = Undefined THEN Undefined ELSE h[e].value

HasIn(h, b, key) == Find(h, b, key) # Undefined

Get(key) == GetIn(heap, buckets, key)
Has(key) == HasIn(heap, buckets, key)

\* -------------------------------------------------------------- iteration
RECURSIVE IterFrom(_, _)
\* the entries _iterator yields from nextEntry on, in order
IterFrom(h, nextEntry) ==
    IF nextEntry = Header THEN << >>
    ELSE <<nextEntry>> \o IterFrom(h, h[nextEntry].after)

IterIn(h) == IterFrom(h, h[Header].after)

\* isEmpty()
isEmpty == size = 0

\* the pairs the iteration yields
PairsIn(h) == LET s == IterIn(h) IN [i \in 1..Len(s) |-> <<h[s[i]].key, h[s[i]].value>>]

Pairs == PairsIn(heap)

\* ----------------------------------------------------------------- rehash
RECURSIVE RehashLoop(_, _, _)
\* the while loop of rehash over the order list; yields <<heap, buckets>>
RehashLoop(h, b, entry) ==
    IF entry = Header THEN <<h, b>>
    ELSE LET idx == HashIn(h[entry].key, Length(b))
             h1 == [h EXCEPT ![entry].next = b[idx]]
             b1 == [b EXCEPT ![idx] = entry]
         IN  RehashLoop(h1, b1, h1[entry].after)

NewCapacity(b) == (Length(b) * 2) + 1

\* rehash without the loop that chains the entries into the new array
RehashDropsEntries(h, b, lf) ==
    <<h, NewArray(NewCapacity(b)), FloorMul(NewCapacity(b), lf)>>

\* rehash(): <<heap, buckets, threshold>>
Rehash(h, b, lf) ==
    LET newCapacity == NewCapacity(b)
        r == RehashLoop(h, NewArray(newCapacity), h[Header].after)
    IN  <<r[1], r[2], FloorMul(newCapacity, lf)>>

\* the address of a new Entry: the first free one of those kept for its key
\* (addresses are not observable; this choice names equal heaps equally)
Alloc(h, key) ==
    LET i == CHOOSE j \in 1..Len(KeySeq) : KeySeq[j] = key
        n == CHOOSE m \in 0..Cardinality(DOMAIN h) :
                 /\ (i + m * Len(KeySeq)) \notin DOMAIN h
                 /\ \A l \in 0..(m - 1) : (i + l * Len(KeySeq)) \in DOMAIN h
    IN  i + n * Len(KeySeq)

\* addEntry(key, value, idx, _): <<heap, buckets>>
AddEntry(h, b, key, value, idx) ==
    LET entry == Alloc(h, key)
        h0 == [e \in DOMAIN h \cup {entry} |->
                 IF e = entry THEN NewEntry(key, value, b[idx]) ELSE h[e]]
    IN  << AddBefore(h0, entry, Header), [b EXCEPT ![idx] = entry] >>

\* ----------------------------------------------------- garbage collection
RECURSIVE Reach(_, _)
\* the entries that references lead to from the entries in S
Reach(h, S) ==
    LET T == S \cup UNION { {h[e].next, h[e].before, h[e].after} \ {Undefined} : e \in S }
    IN  IF T = S THEN S ELSE Reach(h, T)

\* the entry a suspended generator holds in its local nextEntry
Cursor(it) == IF it.pc = "suspended" THEN {it.nextEntry} ELSE {}

\* the heap without the entries that neither the header, a bucket nor the
\* generator leads to
CollectFor(h, b, it) ==
    LET live == Reach(h, {Header} \cup ({b[i] : i \in DOMAIN b} \ {Undefined})
                             \cup Cursor(it))
    IN  [e \in live |-> h[e]]

Collect(h, b) == CollectFor(h, b, iter)

\* ------------------------------------------------------------ constructor
\* `last` names the last call and its outcome:
\*   "new"           the constructor returned
\*   "set-throw"     set threw its Error
\*   "set-update"    set found the key and returned
\*   "set-insert"    set added an entry without a rehash and returned
\*   "set-rehash"    set added an entry after a rehash and returned
\*   "delete-true"   delete returned true
\*   "delete-false"  delete returned false
\*   "clear"         clear returned
\*   "clear-throw"   clear threw the RangeError of Array(this.size)

\* no constructor call with entries is under way
NoCtor == [pc |-> "none", entries |-> << >>, newCapacity |-> 0, i |-> 0]

\* no generator was created
NoIter == [pc |-> "none", nextEntry |-> Undefined, yielded |-> << >>,
           start |-> << >>, mutated |-> FALSE]

\* the constructor up to the test of entries (lines 19-25)
Fields(a) ==
    /\ threshold = FloorMul(a[1], <<a[2], a[3]>>)
    /\ loadFactor = <<a[2], a[3]>>
    /\ capacity = a[1]
    /\ modCount = 0
    /\ size = 0
    /\ heap = [i \in {Header} |->
                 [key |-> UndefinedKey, value |-> Undefined, next |-> Undefined,
                  before |-> Header, after |-> Header]]

\* new LinkedHashMap(null, initialCapacity, loadFactor)
Construct(a) ==
    /\ Fields(a)
    /\ buckets = NewArray(a[1])
    /\ last = "new"
    /\ ctor = NoCtor
    /\ iter = NoIter

Init == \E a \in CtorArgs : Construct(a)

\* ------------------------------------------------------------- operations
\* set counting the modification before it checks the key
SetInvalidCounted(key, value) ==
    /\ key \in {NullKey, UndefinedKey}
    /\ modCount' = modCount + 1
    /\ last' = "set-throw"
    /\ UNCHANGED <<capacity, threshold, loadFactor, size, buckets, heap>>

\* set(key, value) with a key that is null or undefined: throws
SetInvalid(key, value) ==
    /\ key \in {NullKey, UndefinedKey}
    /\ last' = "set-throw"
    /\ UNCHANGED <<capacity, threshold, loadFactor, modCount, size, buckets, heap>>

\* set replacing the value without moving the entry to the end
SetUpdateInPlace(key, value) ==
    LET entry == Find(heap, buckets, key)
    IN  /\ key \notin {NullKey, UndefinedKey}
        /\ entry # Undefined
        /\ heap' = [heap EXCEPT ![entry].value = value]
        /\ last' = "set-update"
        /\ UNCHANGED <<capacity, threshold, loadFactor, modCount, size, buckets>>

\* set(key, value) finding the key in its chain
SetUpdate(key, value) ==
    LET entry == Find(heap, buckets, key)
    IN  /\ key \notin {NullKey, UndefinedKey}
        /\ entry # Undefined
        /\ heap' = AddBefore(Remove([heap EXCEPT ![entry].value = value], entry),
                             entry, Header)
        /\ last' = "set-update"
        /\ UNCHANGED <<capacity, threshold, loadFactor, modCount, size, buckets>>

\* set adding the entry after a rehash at the index computed before it
\* (the `idx = this.hash(key)` that set leaves commented out)
SetInsertStaleIdx(key, value) ==
    LET idx == HashIn(key, Length(buckets))
        r == Rehash(heap, buckets, loadFactor)
        grown == AddEntry(r[1], r[2], key, value, idx)
        plain == AddEntry(heap, buckets, key, value, idx)
    IN  /\ key \notin {NullKey, UndefinedKey}
        /\ Find(heap, buckets, key) = Undefined
        /\ modCount < MaxModCount
        /\ modCount' = modCount + 1
        /\ size' = size + 1
        /\ IF size + 1 > threshold
           THEN /\ threshold' = r[3]
                /\ heap' = grown[1]
                /\ buckets' = grown[2]
                /\ last' = "set-rehash"
           ELSE /\ threshold' = threshold
                /\ heap' = plain[1]
                /\ buckets' = plain[2]
                /\ last' = "set-insert"
        /\ UNCHANGED <<capacity, loadFactor>>

\* set(key, value) not finding the key: a new entry, after a rehash when
\* the incremented size exceeds the threshold
SetInsert(key, value) ==
    LET idx == HashIn(key, Length(buckets))
        r == Rehash(heap, buckets, loadFactor)
        grown == AddEntry(r[1], r[2], key, value, HashIn(key, Length(r[2])))
        plain == AddEntry(heap, buckets, key, value, idx)
    IN  /\ key \notin {NullKey, UndefinedKey}
        /\ Find(heap, buckets, key) = Undefined
        /\ modCount < MaxModCount
        /\ modCount' = modCount + 1
        /\ size' = size + 1
        /\ IF size + 1 > threshold
           THEN /\ threshold' = r[3]
                /\ heap' = grown[1]
                /\ buckets' = grown[2]
                /\ last' = "set-rehash"
           ELSE /\ threshold' = threshold
                /\ heap' = plain[1]
                /\ buckets' = plain[2]
                /\ last' = "set-insert"
        /\ UNCHANGED <<capacity, loadFactor>>

RECURSIVE PrevOf(_, _, _)
\* the entry whose next is e in the chain starting at entry (`last` in delete)
PrevOf(h, entry, e) ==
    IF h[entry].next = e THEN entry ELSE PrevOf(h, h[entry].next, e)

\* the heap after the statements of a delete(key) that finds the key, with
\* the entry it unlinked still in it
Unlinked(key) ==
    LET idx == HashIn(key, Length(buckets))
        entry == Find(heap, buckets, key)
        h1 == IF buckets[idx] = entry
              THEN heap
              ELSE [heap EXCEPT ![PrevOf(heap, buckets[idx], entry)].next = heap[entry].next]
    IN  Remove(h1, entry)

\* delete(key) finding the key in its chain
DeleteFound(key) ==
    LET idx == HashIn(key, Length(buckets))
        entry == Find(heap, buckets, key)
    IN  /\ entry # Undefined
        /\ modCount < MaxModCount
        /\ modCount' = modCount + 1
        /\ buckets' = IF buckets[idx] = entry
                      THEN [buckets EXCEPT ![idx] = heap[entry].next]
                      ELSE buckets
        /\ size' = size - 1
        /\ heap' = Collect(Unlinked(key), buckets')
        /\ last' = "delete-true"
        /\ UNCHANGED <<capacity, threshold, loadFactor>>

\* a delete that counts the call as a modification before it scans the chain
DeleteAbsentCounted(key) ==
    /\ Find(heap, buckets, key) = Undefined
    /\ last' = "delete-false"
    /\ modCount' = modCount + 1
    /\ UNCHANGED <<capacity, threshold, loadFactor, size, buckets, heap>>

\* delete(key) not finding the key
DeleteAbsent(key) ==
    /\ Find(heap, buckets, key) = Undefined
    /\ last' = "delete-false"
    /\ UNCHANGED <<capacity, threshold, loadFactor, modCount, size, buckets, heap>>

\* clear() of a map whose size is not 0; Array(this.size) throws a
\* RangeError when the size is negative, after modCount was incremented
ClearSome ==
    /\ size # 0
    /\ modCount < MaxModCount
    /\ modCount' = modCount + 1
    /\ IF size < 0
       THEN /\ last' = "clear-throw"
            /\ UNCHANGED <<buckets, size>>
       ELSE /\ buckets' = NewArray(size)
            /\ size' = 0
            /\ last' = "clear"
    /\ UNCHANGED <<capacity, threshold, loadFactor, heap>>

\* clear() of a map whose size is 0
ClearNone ==
    /\ size = 0
    /\ last' = "clear"
    /\ UNCHANGED <<capacity, threshold, loadFactor, modCount, size, buckets, heap>>

Next ==
    \/ \E key \in {NullKey, UndefinedKey}, value \in Values :
          SetInvalid(key, value) /\ UNCHANGED aux
    \/ \E key \in Keys, value \in Values : SetUpdate(key, value) /\ UNCHANGED aux
    \/ \E key \in Keys, value \in Values : SetInsert(key, value) /\ UNCHANGED aux
    \/ \E key \in Keys : DeleteFound(key) /\ UNCHANGED aux
    \/ \E key \in Keys : DeleteAbsent(key) /\ UNCHANGED aux
    \/ ClearSome /\ UNCHANGED aux
    \/ ClearNone /\ UNCHANGED aux

Spec == Init /\ [][Next]_vars

\* a map on which only set is called, with one more key
NextSets ==
    \/ \E key \in {NullKey, UndefinedKey}, value \in Values :
          SetInvalid(key, value) /\ UNCHANGED aux
    \/ \E key \in AllKeys, value \in Values : SetUpdate(key, value) /\ UNCHANGED aux
    \/ \E key \in AllKeys, value \in Values : SetInsert(key, value) /\ UNCHANGED aux

SpecSets == Init /\ [][NextSets]_vars

\* new LinkedHashMap(null, initialCapacity, loadFactor) with the capacities
\* that new Array(initialCapacity) takes, 0 among them
CtorArgsFrom0 == CtorArgs \cup { <<0, 3, 4>> }
InitFrom0 == \E a \in CtorArgsFrom0 : Construct(a)
SpecFrom0 == InitFrom0 /\ [][NextSets]_vars

\* ------------------------------------------------------------ the generator

\* the number of pairs after which the model stops following a generator
MaxYields == 4

\* the keys and the value that are set before and while a generator runs
IterKeys == { <<97>>, <<98>>, <<97, 98>> }
IterValues == {1}

\* the first next() of a generator of _iterator(): up to the first yield, or
\* to the end when the order list is empty
IterStart ==
    /\ iter.pc = "none"
    /\ LET nextEntry == heap[Header].after
       IN  iter' = IF Header # nextEntry
                   THEN [pc |-> "suspended", nextEntry |-> nextEntry,
                         yielded |-> << <<heap[nextEntry].key, heap[nextEntry].value>> >>,
                         start |-> Pairs, mutated |-> FALSE]
                   ELSE [pc |-> "done", nextEntry |-> nextEntry, yielded |-> << >>,
                         start |-> Pairs, mutated |-> FALSE]
    /\ UNCHANGED <<capacity, threshold, loadFactor, modCount, size, buckets,
                   heap, last, ctor>>

\* a generator that resumes two entries further on
IterNextSkips ==
    /\ iter.pc = "suspended"
    /\ Len(iter.yielded) < MaxYields
    /\ LET over == heap[iter.nextEntry].after
           nextEntry == IF over = Header THEN Header ELSE heap[over].after
       IN  iter' = IF Header # nextEntry
                   THEN [iter EXCEPT !.nextEntry = nextEntry,
                           !.yielded = Append(@, <<heap[nextEntry].key,
                                                   heap[nextEntry].value>>)]
                   ELSE [iter EXCEPT !.pc = "done", !.nextEntry = nextEntry]
    /\ heap' = CollectFor(heap, buckets, iter')
    /\ UNCHANGED <<capacity, threshold, loadFactor, modCount, size, buckets,
                   last, ctor>>

\* a later next(): nextEntry = nextEntry.after, then the loop test and the
\* next yield, or the end
IterNext ==
    /\ iter.pc = "suspended"
    /\ Len(iter.yielded) < MaxYields
    /\ LET nextEntry == heap[iter.nextEntry].after
       IN  iter' = IF Header # nextEntry
                   THEN [iter EXCEPT !.nextEntry = nextEntry,
                           !.yielded = Append(@, <<heap[nextEntry].key,
                                                   heap[nextEntry].value>>)]
                   ELSE [iter EXCEPT !.pc = "done", !.nextEntry = nextEntry]
    /\ heap' = CollectFor(heap, buckets, iter')
    /\ UNCHANGED <<capacity, threshold, loadFactor, modCount, size, buckets,
                   last, ctor>>

\* a call of the map while no generator runs or one is suspended, as from
\* the callback of forEach
Between ==
    /\ iter.pc # "done"
    /\ iter' = [iter EXCEPT !.mutated = @ \/ iter.pc = "suspended"]
    /\ UNCHANGED ctor

NextIter ==
    \/ \E key \in IterKeys, value \in IterValues : SetUpdate(key, value) /\ Between
    \/ \E key \in IterKeys, value \in IterValues : SetInsert(key, value) /\ Between
    \/ \E key \in IterKeys : DeleteFound(key) /\ Between
    \/ IterStart
    \/ IterNext

SpecIter == Init /\ [][NextIter]_vars

\* -------------------------------------------------------------- the lookups

\* get(key): the result is undefined or a stored value
GetCall(key) ==
    /\ last' = IF Get(key) = Undefined THEN "get-undefined" ELSE "get-value"
    /\ UNCHANGED <<capacity, threshold, loadFactor, modCount, size, buckets, heap>>

\* has(key)
HasCall(key) ==
    /\ last' = IF Has(key) THEN "has-true" ELSE "has-false"
    /\ UNCHANGED <<capacity, threshold, loadFactor, modCount, size, buckets, heap>>

\* the keys that are set where lookups are calls of their own
CallKeys == { <<97>>, <<98>>, <<97, 98>> }

NextCalls ==
    \/ \E key \in {NullKey, UndefinedKey}, value \in Values :
          SetInvalid(key, value) /\ UNCHANGED aux
    \/ \E key \in CallKeys, value \in Values : SetUpdate(key, value) /\ UNCHANGED aux
    \/ \E key \in CallKeys, value \in Values : SetInsert(key, value) /\ UNCHANGED aux
    \/ \E key \in CallKeys : DeleteFound(key) /\ UNCHANGED aux
    \/ \E key \in Keys : DeleteAbsent(key) /\ UNCHANGED aux
    \/ ClearSome /\ UNCHANGED aux
    \/ ClearNone /\ UNCHANGED aux
    \/ \E key \in Keys : GetCall(key) /\ UNCHANGED aux
    \/ \E key \in Keys : HasCall(key) /\ UNCHANGED aux

SpecCalls == Init /\ [][NextCalls]_vars

\* ------------------------------------------------ construction from entries

\* the longest entries argument, and the capacity at which the model stops
\* following computeCapacity's loop
MaxEntries == 3
MaxCapacity == 40

\* the entries arguments: sequences of [key, value] pairs
EntryKeys == { <<97>>, <<98>>, <<97, 98>> }
RECURSIVE EntryListsOf(_)
EntryListsOf(n) ==
    IF n = 0 THEN { << >> }
    ELSE LET shorter == EntryListsOf(n - 1)
         IN  shorter \cup { Append(es, <<k, v>>) :
                              es \in {x \in shorter : Len(x) = n - 1},
                              k \in EntryKeys, v \in Values }
EntryLists == EntryListsOf(MaxEntries)

\* the capacities and load factors given with entries
CtorArgsEntries == CtorArgs \cup { <<4, 3, 4>> }

\* new LinkedHashMap(entries, initialCapacity, loadFactor) on entering
\* computeCapacity: this.buckets is not assigned yet
InitEntries ==
    \E a \in CtorArgsEntries, es \in EntryLists :
        /\ Fields(a)
        /\ buckets = NewArray(0)
        /\ last = "new"
        /\ ctor = [pc |-> "computeCapacity", entries |-> es,
                   newCapacity |-> a[1], i |-> 1]
        /\ iter = NoIter

\* one turn of computeCapacity's loop: only newCapacity is assigned
Grow ==
    /\ ctor.pc = "computeCapacity"
    /\ Len(ctor.entries) > threshold
    /\ ctor.newCapacity < MaxCapacity
    /\ ctor' = [ctor EXCEPT !.newCapacity = (ctor.newCapacity * 2) + 1]
    /\ UNCHANGED <<capacity, threshold, loadFactor, modCount, size, buckets,
                   heap, last, iter>>

\* computeCapacity returns; the constructor assigns capacity, threshold and
\* buckets and calls putAll
ComputeCapacityReturn ==
    /\ ctor.pc = "computeCapacity"
    /\ ~(Len(ctor.entries) > threshold)
    /\ capacity' = ctor.newCapacity
    /\ threshold' = FloorMul(ctor.newCapacity, loadFactor)
    /\ buckets' = NewArray(ctor.newCapacity)
    /\ ctor' = [ctor EXCEPT !.pc = "putAll"]
    /\ UNCHANGED <<loadFactor, modCount, size, heap, last, iter>>

\* a putAll that leaves alone the pairs whose key the map already has
PutNextFirstWins ==
    /\ ctor.pc = "putAll"
    /\ ctor.i <= Len(ctor.entries)
    /\ LET entry == ctor.entries[ctor.i]
       IN  IF Has(entry[1])
           THEN UNCHANGED <<capacity, threshold, loadFactor, modCount, size,
                            buckets, heap, last>>
           ELSE SetInsert(entry[1], entry[2])
    /\ ctor' = [ctor EXCEPT !.i = ctor.i + 1]
    /\ UNCHANGED iter

\* one turn of putAll's loop: this.set(entry[0], entry[1])
PutNext ==
    /\ ctor.pc = "putAll"
    /\ ctor.i <= Len(ctor.entries)
    /\ LET entry == ctor.entries[ctor.i]
       IN  SetUpdate(entry[1], entry[2]) \/ SetInsert(entry[1], entry[2])
    /\ ctor' = [ctor EXCEPT !.i = ctor.i + 1]
    /\ UNCHANGED iter

\* putAll's loop is over and the constructor returns
PutAllReturn ==
    /\ ctor.pc = "putAll"
    /\ ctor.i > Len(ctor.entries)
    /\ ctor' = [ctor EXCEPT !.pc = "done"]
    /\ UNCHANGED <<capacity, threshold, loadFactor, modCount, size, buckets,
                   heap, last, iter>>

NextEntries ==
    \/ Grow
    \/ ComputeCapacityReturn
    \/ PutNext
    \/ PutAllReturn

SpecEntries == InitEntries /\ [][NextEntries]_vars


\* ------------------------------------------------------------ observations
Range(s) == {s[i] : i \in DOMAIN s}

\* the entries on the order list, oldest first
Ring == IterIn(heap)

RECURSIVE ChainWalk(_, _, _)
\* the entries of a chain from entry on, following next at most fuel times
ChainWalk(h, entry, fuel) ==
    IF entry = Undefined \/ fuel = 0 THEN << >>
    ELSE <<entry>> \o ChainWalk(h, h[entry].next, fuel - 1)

RECURSIVE ChainEnds(_, _, _)
\* the chain from entry on reaches its end within fuel steps
ChainEnds(h, entry, fuel) ==
    IF entry = Undefined THEN TRUE
    ELSE IF fuel = 0 THEN FALSE
    ELSE ChainEnds(h, h[entry].next, fuel - 1)

\* the chain of bucket i
ChainOf(i) == ChainWalk(heap, buckets[i], Cardinality(DOMAIN heap))

\* the entries reachable from the bucket chains
Chained == UNION {Range(ChainOf(i)) : i \in DOMAIN buckets}

\* the keys has() answers true for
Present == {k \in AllKeys : Has(k)}

\* the keys of a sequence of pairs
KeysOf(pairs) == [i \in DOMAIN pairs |-> pairs[i][1]]

\* no element occurs twice in the sequence
Distinct(s) == \A i, j \in DOMAIN s : i # j => s[i] # s[j]

\* the sequence without its i-th element
Without(s, i) == [j \in 1..(Len(s) - 1) |-> IF j < i THEN s[j] ELSE s[j + 1]]

\* the step is a call set(k, v) that returned
SetStep(k, v) ==
    /\ last' \in {"set-update", "set-insert", "set-rehash"}
    /\ (SetUpdate(k, v) \/ SetInsert(k, v))

\* the step is a call delete(k)
DeleteStep(k) ==
    /\ last' \in {"delete-true", "delete-false"}
    /\ (DeleteFound(k) \/ DeleteAbsent(k))

\* ------------------------------------------------------------------ claims

\* C1: between operations, the entries reachable from the bucket chains are
\* exactly the entries on the order list: every entry on the order list lies
\* in exactly one chain, the one of the bucket its key hashes to under the
\* current bucket count, and every chain is finite and acyclic.
C1_ChainsEqualOrderList ==
    /\ \A i \in DOMAIN buckets : ChainEnds(heap, buckets[i], Cardinality(DOMAIN heap))
    /\ Chained = Range(Ring)
    /\ \A e \in Range(Ring) :
          {i \in DOMAIN buckets : e \in Range(ChainOf(i))}
              = {HashIn(heap[e].key, Length(buckets))}

\* C6: size is non-negative and equals the number of keys has() is true for.
C6_SizeCountsPresentKeys ==
    /\ size >= 0
    /\ size = Cardinality(Present)

\* C8: after clear() size is 0, isEmpty() is true and iteration yields no
\* pairs (so that later iterations yield only entries set after the clear).
C8_ClearEmpties ==
    last \in {"clear", "clear-throw"} =>
        (last = "clear" /\ size = 0 /\ isEmpty /\ Pairs = << >>)

\* C9: after every set call that returns, size <= threshold.
C9_SizeWithinThreshold ==
    last \in {"set-update", "set-insert", "set-rehash"} => size <= threshold

\* C5: delete(k) on a key has(k) is true for returns true, decreases size by
\* exactly 1, and afterwards has(k) is false, get(k) is absent and iteration
\* does not yield k, while the other pairs keep their values and order.
C5_DeleteRemovesKey ==
    [][\A k \in AllKeys :
         (Has(k) /\ DeleteStep(k)) =>
            /\ last' = "delete-true"
            /\ size' = size - 1
            /\ ~HasIn(heap', buckets', k)
            /\ GetIn(heap', buckets', k) = Undefined
            /\ k \notin Range(KeysOf(PairsIn(heap')))
            /\ \E i \in DOMAIN Pairs :
                  /\ Pairs[i][1] = k
                  /\ PairsIn(heap') = Without(Pairs, i)
            /\ \A o \in AllKeys \ {k} : GetIn(heap', buckets', o) = Get(o)]_vars

\* C10: a set with a null or undefined key raises the error and changes
\* nothing: size, bucket table, threshold, order list and modification
\* counter are what they were before the call.
C10_InvalidKeyChangesNothing ==
    [][\A k \in {NullKey, UndefinedKey}, v \in Values :
         (SetInvalid(k, v) \/ SetUpdate(k, v) \/ SetInsert(k, v)) =>
            /\ last' = "set-throw"
            /\ UNCHANGED <<size, buckets, threshold, heap, modCount, capacity, loadFactor>>
       ]_vars

\* C10 happens: a set threw on a map that holds entries in a shared chain
C10_Witness ==
    /\ last = "set-throw"
    /\ size >= 2
    /\ \E e \in Range(Ring) : heap[e].next # Undefined

\* C3: set(k, v) on a key already present replaces the value of k by v, makes
\* k the last entry of the iteration order, keeps the relative order (and the
\* values) of all other entries, and leaves size, bucket count and threshold
\* unchanged.
C3_UpdateTouches ==
    [][last' \in {"set-update", "set-insert", "set-rehash"} =>
         \A k \in Present, v \in Values :
            SetStep(k, v) =>
               /\ last' = "set-update"
               /\ GetIn(heap', buckets', k) = v
               /\ \E i \in DOMAIN Pairs :
                     /\ Pairs[i][1] = k
                     /\ PairsIn(heap') = Append(Without(Pairs, i), <<k, v>>)
                     /\ IterIn(heap') = Append(Without(Ring, i), Ring[i])
               /\ size' = size
               /\ Length(buckets') = Length(buckets)
               /\ threshold' = threshold]_vars

\* C3 happens: an update gave "a" the other value and moved it behind two or
\* more entries, of which "b" is the oldest
C3_Witness ==
    /\ last = "set-update"
    /\ Len(Pairs) >= 3
    /\ Pairs[Len(Pairs)] = <<KeySeq[1], 2>>
    /\ Pairs[1][1] = KeySeq[2]
    /\ heap[Ring[Len(Ring)]].next # Undefined

\* C4: get(k) right after set(k, v) returns v and has(k) returns true,
\* whether set inserted k, updated k or triggered a resize.
C4_GetAfterSet ==
    [][last' \in {"set-update", "set-insert", "set-rehash"} =>
         \A k \in Keys, v \in Values :
            SetStep(k, v) =>
               /\ GetIn(heap', buckets', k) = v
               /\ HasIn(heap', buckets', k)]_vars

\* C4 happens: a set that resized put its key into a chain with other entries
C4_Witness ==
    /\ last = "set-rehash"
    /\ Length(buckets) > capacity
    /\ \E i \in DOMAIN buckets : Len(ChainOf(i)) >= 2 /\ ChainOf(i)[1] = Ring[Len(Ring)]

\* C2: on a fresh map on which only set is called, a set of a key not yet
\* present appends its pair to the iteration and keeps the pairs yielded
\* before in their order, across resizes: the iteration yields the keys,
\* pairwise distinct and size many, in the order of the set calls.
C2_InsertionOrder ==
    [][\A k \in AllKeys, v \in Values :
         (size = modCount /\ ~Has(k) /\ SetStep(k, v)) =>
            /\ PairsIn(heap') = Append(Pairs, <<k, v>>)
            /\ Distinct(KeysOf(PairsIn(heap')))
            /\ Len(PairsIn(heap')) = size']_vars

\* C2 happens: five distinct keys were set on a fresh map of capacity 1,
\* which resized at the first and at the third (1 -> 3 -> 7)
C2_Witness ==
    /\ size = modCount
    /\ size = Len(KeySeq)
    /\ capacity = 1
    /\ Length(buckets) = 7
    /\ Distinct(KeysOf(Pairs))

\* C7: a set of a new key that triggers a resize leaves the order list of the
\* entries there before untouched: every key present before is retrievable
\* with the same value afterwards, the entries keep their order and the new
\* key is last; with initial capacity 2, five distinct inserts raise nothing,
\* grow the bucket count above 2 and leave all five keys retrievable.
C7_ResizeKeepsEntries ==
    [][\A k \in AllKeys, v \in Values :
         (~Has(k) /\ SetStep(k, v)) =>
            /\ (size + 1 > threshold) =>
                  /\ last' = "set-rehash"
                  /\ Length(buckets') > Length(buckets)
                  /\ \A o \in Present : GetIn(heap', buckets', o) = Get(o)
                  /\ \A i \in DOMAIN Ring :
                        IterIn(heap')[i] = Ring[i] /\ PairsIn(heap')[i] = Pairs[i]
                  /\ PairsIn(heap') = Append(Pairs, <<k, v>>)
            /\ (capacity = 2 /\ size' = modCount' /\ size' = 5) =>
                  /\ Length(buckets') > 2
                  /\ \A i \in 1..5 :
                        GetIn(heap', buckets', PairsIn(heap')[i][1]) = PairsIn(heap')[i][2]
       ]_vars

\* C7 happens: the fourth of five distinct inserts into a map of capacity 2
\* resized it from 5 to 11 buckets, and all five keys are there
C7_Witness ==
    /\ capacity = 2
    /\ size = modCount
    /\ size = 5
    /\ Length(buckets) = 11
    /\ Cardinality(Present) = 5


\* the pairs of an entries argument with every pair dropped whose key occurs
\* again later in it
RECURSIVE LastWins(_)
LastWins(es) ==
    IF es = << >> THEN << >>
    ELSE LET rest == Tail(es)
         IN  IF \E j \in DOMAIN rest : rest[j][1] = Head(es)[1]
             THEN LastWins(rest)
             ELSE << Head(es) >> \o LastWins(rest)

\* C11: construction from an entries sequence of any length terminates with a
\* capacity whose threshold is at least the number of entries: as soon as the
\* capacity that computeCapacity is growing has such a threshold the loop has
\* nothing left to do, and a construction past computeCapacity has a threshold
\* of at least the number of entries.
C11_CapacityPreGrown ==
    /\ (/\ ctor.pc = "computeCapacity"
        /\ FloorMul(ctor.newCapacity, loadFactor) >= Len(ctor.entries))
       => ~(Len(ctor.entries) > threshold)
    /\ ctor.pc \in {"putAll", "done"} => threshold >= Len(ctor.entries)

\* C12: a completed construction from entries leaves the map that set, called
\* for each pair in order on the empty map, leaves: the pairs in iteration
\* order are the entries without the pairs whose key occurs again later, size
\* counts them, and every lookup answers from them.
C12_ConstructionIsSets ==
    ctor.pc = "done" =>
        LET want == LastWins(ctor.entries)
        IN  /\ Pairs = want
            /\ size = Len(want)
            /\ \A k \in AllKeys :
                  /\ Has(k) <=> k \in Range(KeysOf(want))
                  /\ \A i \in DOMAIN want : want[i][1] = k => Get(k) = want[i][2]
                  /\ k \notin Range(KeysOf(want)) => Get(k) = Undefined

\* a completed construction from three pairs, the first and the last with the
\* same key and different values, another key between them
C12_Witness ==
    /\ ctor.pc = "done"
    /\ Len(ctor.entries) = 3
    /\ ctor.entries[1][1] = ctor.entries[3][1]
    /\ ctor.entries[1][2] # ctor.entries[3][2]
    /\ ctor.entries[2][1] # ctor.entries[1][1]


\* what keys() and values() yield: each walks the order list on its own
KeysIn(h) == LET s == IterIn(h) IN [i \in 1..Len(s) |-> h[s[i]].key]
ValuesIn(h) == LET s == IterIn(h) IN [i \in 1..Len(s) |-> h[s[i]].value]

\* C13: in every reachable state an iteration that no call interrupts yields
\* exactly size pairs with pairwise distinct keys, every yielded pair (k, v)
\* with has(k) and get(k) = v, and keys() and values() yield the first and the
\* second components of the same sequence.
C13_IterationYieldsTheMap ==
    /\ Len(Pairs) = size
    /\ Distinct(KeysOf(Pairs))
    /\ \A i \in DOMAIN Pairs : Has(Pairs[i][1]) /\ Get(Pairs[i][1]) = Pairs[i][2]
    /\ KeysIn(heap) = KeysOf(Pairs)
    /\ ValuesIn(heap) = [i \in DOMAIN Pairs |-> Pairs[i][2]]

\* C16: a key that is not in the map is in the map after a step only if the
\* step is a set of that key, so a key removed by delete or clear stays
\* removed until it is set again, whatever is called in between and whether
\* or not it resizes.
C16_RemovedStaysRemoved ==
    [][\A k \in AllKeys :
          (~Has(k) /\ HasIn(heap', buckets', k)) => \E v \in Values : SetStep(k, v)]_vars

\* C17: in every reachable state the order list is a ring through the header:
\* the before and after links of the header and of every entry on it undo each
\* other, the walk from the header comes back to it after exactly size
\* entries, header.after and header.before are entries the bucket chains
\* hold, and the header is linked to itself when size is 0.
C17_OrderListIsRing ==
    /\ \A n \in {Header} \cup Range(Ring) :
          /\ heap[heap[n].after].before = n
          /\ heap[heap[n].before].after = n
    /\ Len(Ring) = size
    /\ \A n \in {heap[Header].after, heap[Header].before} \ {Header} :
          Find(heap, buckets, heap[n].key) = n
    /\ size = 0 => (heap[Header].after = Header /\ heap[Header].before = Header)

\* C18: in every reachable state threshold is floor(bucket count * loadFactor).
C18_ThresholdFollowsBuckets ==
    threshold = FloorMul(Length(buckets), loadFactor)


\* the fields of the map
fields == <<capacity, threshold, loadFactor, modCount, size, buckets, heap>>

\* C14: get, has and delete of a key that is not in the map return undefined,
\* false and false without raising and leave size, buckets, chains, order
\* list, threshold and modCount as they are; get and has of a key that is in
\* the map leave them as they are too.
C14_LookupsChangeNothing ==
    [][last' \in {"get-undefined", "get-value", "has-true", "has-false",
                  "delete-true", "delete-false"} =>
           \A k \in AllKeys :
              /\ GetCall(k) =>
                    /\ fields' = fields
                    /\ ~Has(k) => last' = "get-undefined"
              /\ HasCall(k) =>
                    /\ fields' = fields
                    /\ ~Has(k) => last' = "has-false"
              /\ (~Has(k) /\ DeleteStep(k)) =>
                    /\ fields' = fields
                    /\ last' = "delete-false"]_vars

\* a delete of a key that is not in a map of two entries has returned false
C14_Witness ==
    /\ last = "delete-false"
    /\ size = 2
    /\ Cardinality(Present) = 2


\* C15: in every reachable state, whatever the constructor was given, there is
\* at least one bucket, and hash(key) of every string key is an index of the
\* bucket array, the same for equal keys.
C15_HashIsAnIndex ==
    /\ Length(buckets) >= 1
    /\ \A k \in AllKeys :
          /\ HashIn(k, Length(buckets)) \in 0..(Length(buckets) - 1)
          /\ \A k2 \in AllKeys :
                k = k2 => HashIn(k, Length(buckets)) = HashIn(k2, Length(buckets))


\* C19: after a successful delete the removed entry's own links are cleared:
\* an entry that a suspended generator still holds and that is no longer on
\* the order list has neither a next nor a before nor an after link.
C19_RemovedEntryCleared ==
    (iter.pc = "suspended" /\ iter.nextEntry \notin Range(Ring)) =>
        /\ heap[iter.nextEntry].next = Undefined
        /\ heap[iter.nextEntry].before = Undefined
        /\ heap[iter.nextEntry].after = Undefined

\* C20: an iteration is no snapshot. The pairs a finished generator yielded
\* are the order list as it was at the start and as it is at the end when no
\* set or delete was called while it was suspended, and only then: the
\* witness is a finished generator with such calls that yielded a key twice
\* and never yielded a key that is in the map.
C20_OnlyUndisturbedIterationIsExact ==
    /\ (iter.pc = "done" /\ ~iter.mutated) =>
          (iter.yielded = iter.start /\ iter.yielded = Pairs)
    /\ (iter.pc = "suspended" /\ ~iter.mutated) =>
          /\ iter.start = Pairs
          /\ iter.yielded = SubSeq(Pairs, 1, Len(iter.yielded))

\* a finished generator, suspended across calls of set for keys of the map
\* only, that yielded one entry twice and skipped another, so that what it
\* yielded is the order list neither of its start nor of its end
C20_Witness ==
    /\ iter.pc = "done"
    /\ iter.mutated
    /\ modCount = Len(iter.start)
    /\ ~Distinct(KeysOf(iter.yielded))
    /\ \E i \in DOMAIN Pairs :
          /\ Has(Pairs[i][1])
          /\ Pairs[i][1] \in Range(KeysOf(iter.start))
          /\ Pairs[i][1] \notin Range(KeysOf(iter.yielded))
    /\ iter.yielded # iter.start
    /\ iter.yielded # Pairs

====
